---- MODULE Spec2Model ----
(***************************************************************************)
(* Model of bluetooth_server/server.py: the BluetoothApp serving thread    *)
(* (run / _handle_clients / _handle_client / _run_endpoint), the endpoint  *)
(* registry, the three wire primitives, and the clients at the other end   *)
(* of the sockets.                                                         *)
(*                                                                         *)
(* Bytes are integers 0..255, byte strings are sequences of them, text is  *)
(* a sequence of Unicode code points.  struct's 'I' is taken in            *)
(* little-endian order (the native order of the platforms pybluez is used  *)
(* on).                                                                    *)
(***************************************************************************)
EXTENDS Integers, Sequences, FiniteSets, TLC

(***************************************************************************)
(* Bounds of the model.                                                    *)
(***************************************************************************)
\* connections that clients open during one run of the server
MaxConns == 2
\* chunks a client writes on one connection
MaxSends == 2

(***************************************************************************)
(* Program constants.                                                      *)
(***************************************************************************)
\* e.errno == 104: connection reset by peer
ECONNRESET == 104
\* some other errno a BluetoothError can carry (the else branch)
OtherErrno == ECONNRESET + 6

None == 0

(***************************************************************************)
(* Text and byte-string literals used by the handlers and the clients.     *)
(***************************************************************************)
\* "echo"
NameEcho == <<101, 99, 104, 111>>
\* "fé" (U+00E9 takes two bytes in UTF-8)
NameFe == <<102, 233>>
Names == {NameEcho, NameFe}

\* b"ping"
Ping == <<112, 105, 110, 103>>
\* "error"
ErrorKey == <<101, 114, 114, 111, 114>>
\* 'b"é': a message with a quotation mark and a non-ASCII character
MsgQuote == <<98, 34, 233>>
\* "hé"
TextHe == <<104, 233>>
\* "k"
KeyK == <<107>>

(***************************************************************************)
(* Sequence helpers.                                                       *)
(***************************************************************************)
Min(a, b) == IF a < b THEN a ELSE b

Take(s, n) == SubSeq(s, 1, Min(n, Len(s)))

Drop(s, n) == SubSeq(s, Min(n, Len(s)) + 1, Len(s))

(***************************************************************************)
(* struct.pack('I', n) / struct.unpack('I', b)                             *)
(***************************************************************************)
PackU32(n) ==
    << n % 256, (n \div 256) % 256, (n \div 65536) % 256, (n \div 16777216) % 256 >>

\* TLC's integers are 32-bit: a length of 2^30 or more is represented by 2^30
\* (recv never returns more than what is buffered, so all of them read alike)
UnpackU32(b) ==
    IF b[4] >= 64 THEN 64 * 16777216
    ELSE b[1] + 256 * b[2] + 65536 * b[3] + 16777216 * b[4]

(***************************************************************************)
(* str.encode(): UTF-8 of a sequence of code points.                       *)
(***************************************************************************)
Utf8Char(c) ==
    IF c < 128 THEN << c >>
    ELSE IF c < 2048 THEN << 192 + (c \div 64), 128 + (c % 64) >>
    ELSE IF c < 65536
        THEN << 224 + (c \div 4096), 128 + ((c \div 64) % 64), 128 + (c % 64) >>
        ELSE << 240 + (c \div 262144), 128 + ((c \div 4096) % 64),
                128 + ((c \div 64) % 64), 128 + (c % 64) >>

RECURSIVE Utf8Encode(_)
Utf8Encode(s) ==
    IF s = << >> THEN << >> ELSE Utf8Char(Head(s)) \o Utf8Encode(Tail(s))

(***************************************************************************)
(* bytes.decode(): strict UTF-8.  The result is [ok, text]; ok = FALSE is  *)
(* UnicodeDecodeError.                                                     *)
(***************************************************************************)
IsCont(b, i) == i <= Len(b) /\ b[i] >= 128 /\ b[i] <= 191

RECURSIVE Utf8DecodeFrom(_, _, _)
Utf8DecodeFrom(b, i, acc) ==
    IF i > Len(b) THEN [ok |-> TRUE, text |-> acc]
    ELSE IF b[i] < 128 THEN Utf8DecodeFrom(b, i + 1, Append(acc, b[i]))
    ELSE IF b[i] >= 194 /\ b[i] <= 223 /\ IsCont(b, i + 1)
        THEN Utf8DecodeFrom(b, i + 2,
                 Append(acc, (b[i] - 192) * 64 + (b[i + 1] - 128)))
    ELSE IF b[i] >= 224 /\ b[i] <= 239 /\ IsCont(b, i + 1) /\ IsCont(b, i + 2)
        THEN LET cp == (b[i] - 224) * 4096 + (b[i + 1] - 128) * 64 + (b[i + 2] - 128)
             IN  IF cp < 2048 \/ (cp >= 55296 /\ cp <= 57343)
                 THEN [ok |-> FALSE, text |-> << >>]
                 ELSE Utf8DecodeFrom(b, i + 3, Append(acc, cp))
    ELSE IF b[i] >= 240 /\ b[i] <= 244
            /\ IsCont(b, i + 1) /\ IsCont(b, i + 2) /\ IsCont(b, i + 3)
        THEN LET cp == (b[i] - 240) * 262144 + (b[i + 1] - 128) * 4096
                       + (b[i + 2] - 128) * 64 + (b[i + 3] - 128)
             IN  IF cp < 65536 \/ cp > 1114111
                 THEN [ok |-> FALSE, text |-> << >>]
                 ELSE Utf8DecodeFrom(b, i + 4, Append(acc, cp))
    ELSE [ok |-> FALSE, text |-> << >>]

Utf8Decode(b) == Utf8DecodeFrom(b, 1, << >>)

(***************************************************************************)
(* json.dumps of a mapping from text to text (ensure_ascii, the default    *)
(* separators ", " and ": ").  A mapping is a sequence of <<key, value>>.  *)
(***************************************************************************)
HexDigit(d) == IF d < 10 THEN 48 + d ELSE 87 + d

\* \uXXXX
JsonU(c) ==
    << 92, 117, HexDigit((c \div 4096) % 16), HexDigit((c \div 256) % 16),
       HexDigit((c \div 16) % 16), HexDigit(c % 16) >>

JsonEscapeChar(c) ==
    IF c = 34 THEN << 92, 34 >>
    ELSE IF c = 92 THEN << 92, 92 >>
    ELSE IF c = 10 THEN << 92, 110 >>
    ELSE IF c = 13 THEN << 92, 114 >>
    ELSE IF c = 9 THEN << 92, 116 >>
    ELSE IF c = 8 THEN << 92, 98 >>
    ELSE IF c = 12 THEN << 92, 102 >>
    ELSE IF c < 32 THEN JsonU(c)
    ELSE IF c < 128 THEN << c >>
    ELSE IF c < 65536 THEN JsonU(c)
    ELSE JsonU(55296 + ((c - 65536) \div 1024)) \o JsonU(56320 + ((c - 65536) % 1024))

RECURSIVE JsonEscape(_)
JsonEscape(s) ==
    IF s = << >> THEN << >> ELSE JsonEscapeChar(Head(s)) \o JsonEscape(Tail(s))

JsonString(s) == << 34 >> \o JsonEscape(s) \o << 34 >>

RECURSIVE JsonItems(_)
JsonItems(pairs) ==
    IF pairs = << >> THEN << >>
    ELSE JsonString(Head(pairs)[1]) \o << 58, 32 >> \o JsonString(Head(pairs)[2])
         \o (IF Tail(pairs) = << >> THEN << >> ELSE << 44, 32 >>)
         \o JsonItems(Tail(pairs))

\* the text json.dumps returns (all ASCII)
JsonDumps(pairs) == << 123 >> \o JsonItems(pairs) \o << 125 >>

(***************************************************************************)
(* Values a handler can return, and the handlers the model registers.      *)
(* A value is [kind, bytes, text, pairs]; kind is the Python type.         *)
(***************************************************************************)
BytesValue(b) == [kind |-> "bytes", bytes |-> b, text |-> << >>, pairs |-> << >>]

StrValue(t) == [kind |-> "str", bytes |-> << >>, text |-> t, pairs |-> << >>]

DictValue(p) == [kind |-> "dict", bytes |-> << >>, text |-> << >>, pairs |-> p]

NoneValue == [kind |-> "None", bytes |-> << >>, text |-> << >>, pairs |-> << >>]

IntValue == [kind |-> "int", bytes |-> << >>, text |-> << >>, pairs |-> << >>]

Returns(v) == [raised |-> FALSE, msg |-> << >>, value |-> v]

\* raise Exception(msg); str(e) is msg, and '' for Exception()
Raises(m) == [raised |-> TRUE, msg |-> m, value |-> NoneValue]

Handlers == {"echo", "poly"}

\* "echo" returns its input; "poly" is a callable whose result depends on
\* the payload, so that every kind of result of a callback is exercised:
\*   b""  -> None          b"s" -> 'hé'             b"d" -> {'k': 'b"é'}
\*   b"x" -> raises Exception('b"é')                b"y" -> raises Exception()
\*   b"i" -> 7             anything else -> b"\x00" + data
HandlerCall(h, d) ==
    IF h = "echo" THEN Returns(BytesValue(d))
    ELSE IF d = << >> THEN Returns(NoneValue)
    ELSE IF d = << 115 >> THEN Returns(StrValue(TextHe))
    ELSE IF d = << 100 >> THEN Returns(DictValue(<< << KeyK, MsgQuote >> >>))
    ELSE IF d = << 120 >> THEN Raises(MsgQuote)
    ELSE IF d = << 121 >> THEN Raises(<< >>)
    ELSE IF d = << 105 >> THEN Returns(IntValue)
    ELSE Returns(BytesValue(<< 0 >> \o d))

(***************************************************************************)
(* What the clients write.                                                 *)
(***************************************************************************)
\* a well-formed request: endpoint frame, payload, NUL
Request(name, payload) ==
    PackU32(Len(Utf8Encode(name))) \o Utf8Encode(name) \o payload \o << 0 >>

Payloads == { << >>, Ping, << 115 >>, << 100 >>, << 120 >>, << 121 >>, << 105 >> }

Requests ==
    { Request(NameEcho, Ping) } \cup { Request(NameFe, p) : p \in Payloads \ { Ping } }

Malformed ==
    { \* two bytes of a length prefix
      << 4, 0 >>,
      \* a one-byte name that is not UTF-8
      << 1, 0, 0, 0, 255, 0 >>,
      \* the prefix announces the 4 bytes of "féh", only the 3 of "fé" are
      \* delivered with it
      PackU32(4) \o Utf8Encode(NameFe),
      \* the rest of that name, the payload "op" and the terminator
      << 104, 111, 112, 0 >>,
      \* a request whose payload has no terminator yet
      PackU32(4) \o NameEcho \o << 112, 105 >>,
      \* two requests written back to back
      Request(NameFe, << 120 >>) \o Request(NameEcho, Ping) }

Chunks == Requests \cup Malformed

(***************************************************************************)
(* State.                                                                  *)
(***************************************************************************)
VARIABLES
    \* BluetoothApp fields
    end_points,         \* self._end_points: name -> handler
    running,            \* self._running
    server_socket,      \* self._server_socket: None or "socket"
    \* the listening socket
    binds,              \* times bind() was called
    listening,          \* listen() was called
    advertised,         \* advertise_service() was called
    pending,            \* connections waiting in accept's queue
    opened,             \* connections opened by clients so far
    \* the serving thread
    pc,                 \* where the thread is
    client_socket,      \* _handle_clients' local: None or a connection
    end_point_length,   \* _recv_client_endpoint's local
    end_point,          \* _handle_client's local
    data,               \* _recv_client_data's / _handle_client's local
    return_data,        \* _run_endpoint's local
    \* the connection client_socket refers to
    inbuf,              \* bytes written by the peer, not yet read
    outbuf,             \* bytes sent to the peer, not yet read by it
    peer,               \* "open", "eof" (peer closed), "reset" (recv/send raise)
    perrno,             \* errno of the BluetoothError a reset peer causes
    sends,              \* chunks the peer has written
    \* what happened (read by the properties only)
    stopCalled,         \* stop() was called
    atStop,             \* whether run() had begun, and the connections accepted
                        \* so far, when stop() was called
    lastReg,            \* the name of the last such call and how it ended
    regVia,             \* the method the last such call went through
    firstReg,           \* name -> the handler first passed for it
    invoked,            \* handler calls in the current request cycle
    lastCall,           \* the handler called in this cycle and its argument
    outcome,            \* how the last request cycle ended
    lastLog,            \* what the thread logged last about the current cycle
    accepts,            \* connections accept() returned
    dropped,            \* connections the server no longer serves
    closed,             \* close() calls per connection
    reader,             \* a caller reading app.server_socket on another thread:
                        \* "idle", or "creating" between the property's test
                        \* of _server_socket and its assignment
    spinning            \* _recv_client_data read b'' at end of stream

appVars == << end_points, running, server_socket >>

sockVars == << binds, listening, advertised >>

locals == << end_point_length, end_point, data, return_data >>

connVars == << inbuf, outbuf, peer, perrno, sends >>

regHist == << lastReg, regVia, firstReg >>

cycleHist == << invoked, lastCall, outcome >>

vars == << end_points, running, server_socket, binds, listening, advertised,
           pending, opened, pc, client_socket, end_point_length, end_point, data,
           return_data, inbuf, outbuf, peer, perrno, sends, stopCalled,
           lastReg, regVia, firstReg, invoked, lastCall, outcome, lastLog, accepts,
           dropped, closed, spinning, atStop, reader >>

ConnIds == 1 .. MaxConns

NoReg == [name |-> << >>, result |-> "none"]

NoCall == [name |-> << >>, handler |-> "none", data |-> << >>]

NotStopped == [started |-> FALSE, accepts |-> 0]

\* __init__
Init ==
    /\ end_points = << >>
    /\ running = TRUE
    /\ server_socket = "None"
    /\ binds = 0
    /\ listening = FALSE
    /\ advertised = FALSE
    /\ pending = << >>
    /\ opened = 0
    /\ pc = "init"
    /\ client_socket = None
    /\ end_point_length = 0
    /\ end_point = << >>
    /\ data = << >>
    /\ return_data = NoneValue
    /\ inbuf = << >>
    /\ outbuf = << >>
    /\ peer = "open"
    /\ perrno = 0
    /\ sends = 0
    /\ stopCalled = FALSE
    /\ atStop = NotStopped
    /\ lastReg = NoReg
    /\ regVia = "none"
    /\ firstReg = << >>
    /\ invoked = 0
    /\ lastCall = NoCall
    /\ outcome = "none"
    /\ lastLog = "none"
    /\ accepts = 0
    /\ dropped = {}
    /\ closed = [c \in ConnIds |-> 0]
    /\ reader = "idle"
    /\ spinning = FALSE

(***************************************************************************)
(* The endpoint registry.                                                  *)
(***************************************************************************)
\* RegisterEndpoint without the test for an existing name: the later
\* registration replaces the earlier one
RegisterEndpointOverwrites(name, h) ==
    /\ end_points' = [n \in DOMAIN end_points \cup {name} |->
                         IF n = name THEN h ELSE end_points[n]]
    /\ lastReg' = [name |-> name, result |-> "ok"]

\* register_endpoint(end_point, callback)
RegisterEndpoint(name, h) ==
    IF name \in DOMAIN end_points
    THEN \* raise EndpointExistsError
         /\ lastReg' = [name |-> name, result |-> "EndpointExistsError"]
         /\ UNCHANGED end_points
    ELSE /\ end_points' = [n \in DOMAIN end_points \cup {name} |->
                              IF n = name THEN h ELSE end_points[n]]
         /\ lastReg' = [name |-> name, result |-> "ok"]

\* a caller invoking app.register_endpoint(name, h)
CallRegisterEndpoint ==
    /\ \E name \in Names, h \in Handlers :
          /\ RegisterEndpoint(name, h)
          /\ firstReg' = IF name \in DOMAIN firstReg THEN firstReg
                          ELSE [n \in DOMAIN firstReg \cup {name} |->
                                   IF n = name THEN h ELSE firstReg[n]]
    /\ regVia' = "register_endpoint"
    /\ UNCHANGED << running, server_socket, sockVars, pending, opened, pc,
                    client_socket, locals, connVars, stopCalled, cycleHist,
                    lastLog, accepts, dropped, closed, spinning, atStop, reader >>

\* a caller applying the decorator: app.register(name)(h); _register_wrapper
\* passes func itself to register_endpoint, whose exception propagates
CallRegister ==
    /\ \E name \in Names, h \in Handlers :
          /\ RegisterEndpoint(name, h)
          /\ firstReg' = IF name \in DOMAIN firstReg THEN firstReg
                          ELSE [n \in DOMAIN firstReg \cup {name} |->
                                   IF n = name THEN h ELSE firstReg[n]]
    /\ regVia' = "register"
    /\ UNCHANGED << running, server_socket, sockVars, pending, opened, pc,
                    client_socket, locals, connVars, stopCalled, cycleHist,
                    lastLog, accepts, dropped, closed, spinning, atStop, reader >>

(***************************************************************************)
(* stop(), from any other thread.                                          *)
(***************************************************************************)
Stop ==
    /\ ~stopCalled
    /\ running' = FALSE
    /\ stopCalled' = TRUE
    /\ atStop' = [started |-> pc # "init", accepts |-> accepts]
    /\ UNCHANGED << end_points, server_socket, sockVars, pending, opened, pc,
                    client_socket, locals, connVars, regHist, cycleHist, lastLog,
                    accepts, dropped, closed, spinning, reader >>

(***************************************************************************)
(* The serving thread: run().                                              *)
(***************************************************************************)
\* ThreadFrame of a thread that empties the registry as it goes
ThreadFrameDropsRegistry ==
    /\ end_points' = << >>
    /\ UNCHANGED << running, stopCalled, atStop, regHist, opened, closed, reader >>

\* what the serving thread never touches
ThreadFrame ==
    UNCHANGED << end_points, running, stopCalled, atStop, regHist, opened, closed,
                 reader >>

\* Thread.start()
Start ==
    /\ pc = "init"
    /\ pc' = "listen"
    /\ ThreadFrame
    /\ UNCHANGED << server_socket, sockVars, pending, client_socket, locals,
                    connVars, cycleHist, lastLog, accepts, dropped, spinning >>

\* the server_socket property: create and bind on first use, then reuse
ServerSocket ==
    IF server_socket # "None"
    THEN UNCHANGED << server_socket, binds >>
    ELSE /\ server_socket' = "socket"
         /\ binds' = binds + 1

\* StartListening of a run() that tests the flag first and returns at once
\* when stop() has been called
StartListeningUnlessStopped ==
    /\ pc = "listen"
    /\ IF running
       THEN /\ ServerSocket
            /\ listening' = TRUE
            /\ pc' = "advertise"
       ELSE /\ pc' = "done"
            /\ UNCHANGED << server_socket, binds, listening >>
    /\ ThreadFrame
    /\ UNCHANGED << advertised, pending, client_socket, locals, connVars,
                    cycleHist, lastLog, accepts, dropped, spinning >>

\* _start_listening
StartListening ==
    /\ pc = "listen"
    /\ ServerSocket
    /\ listening' = TRUE
    /\ pc' = "advertise"
    /\ ThreadFrame
    /\ UNCHANGED << advertised, pending, client_socket, locals, connVars,
                    cycleHist, lastLog, accepts, dropped, spinning >>

\* _advertise_service
AdvertiseService ==
    /\ pc = "advertise"
    /\ ServerSocket
    /\ advertised' = TRUE
    /\ pc' = "run_loop"
    /\ ThreadFrame
    /\ UNCHANGED << listening, pending, client_socket, locals, connVars,
                    cycleHist, lastLog, accepts, dropped, spinning >>

\* RunLoop that serves one client and returns
RunLoopServesOnce ==
    /\ pc = "run_loop"
    /\ pc' = IF running /\ accepts = 0 THEN "accept" ELSE "done"
    /\ ThreadFrame
    /\ UNCHANGED << server_socket, sockVars, pending, client_socket, locals,
                    connVars, cycleHist, lastLog, accepts, dropped, spinning >>

\* while self._running:
RunLoop ==
    /\ pc = "run_loop"
    /\ pc' = IF running THEN "accept" ELSE "done"
    /\ ThreadFrame
    /\ UNCHANGED << server_socket, sockVars, pending, client_socket, locals,
                    connVars, cycleHist, lastLog, accepts, dropped, spinning >>

\* _wait_for_client: accept() blocks until a client has connected
WaitForClient ==
    /\ pc = "accept"
    /\ ServerSocket
    /\ pending # << >>
    /\ client_socket' = Head(pending)
    /\ pending' = Tail(pending)
    /\ accepts' = accepts + 1
    /\ pc' = "client_loop"
    /\ ThreadFrame
    /\ UNCHANGED << listening, advertised, locals, connVars, cycleHist, lastLog,
                    dropped, spinning >>

ResetLocals ==
    /\ end_point_length' = 0
    /\ end_point' = << >>
    /\ data' = << >>
    /\ return_data' = NoneValue

\* the thread lets go of the connection: nothing in the program reaches its
\* socket any more (no close() is called on it anywhere)
Release ==
    /\ dropped' = IF client_socket = None THEN dropped
                  ELSE dropped \cup {client_socket}
    /\ client_socket' = None
    /\ inbuf' = << >>
    /\ outbuf' = << >>
    /\ peer' = "open"
    /\ perrno' = 0
    /\ sends' = 0

\* ClientLoop that tests only client_socket: a connection is served until
\* it fails, whatever stop() did
ClientLoopIgnoresStop ==
    /\ pc = "client_loop"
    /\ IF client_socket # None
       THEN /\ pc' = "recv_len"
            /\ invoked' = 0
            /\ lastCall' = NoCall
            /\ outcome' = "reading"
            /\ lastLog' = "none"
            /\ UNCHANGED << client_socket, connVars, dropped >>
       ELSE /\ pc' = "run_loop"
            /\ Release
            /\ UNCHANGED << cycleHist, lastLog >>
    /\ ThreadFrame
    /\ UNCHANGED << server_socket, sockVars, pending, locals, accepts, spinning >>

\* while client_socket and self._running:
ClientLoop ==
    /\ pc = "client_loop"
    /\ IF client_socket # None /\ running
       THEN /\ pc' = "recv_len"
            /\ invoked' = 0
            /\ lastCall' = NoCall
            /\ outcome' = "reading"
            /\ lastLog' = "none"
            /\ UNCHANGED << client_socket, connVars, dropped >>
       ELSE \* _handle_clients returns
            /\ pc' = "run_loop"
            /\ Release
            /\ UNCHANGED << cycleHist, lastLog >>
    /\ ThreadFrame
    /\ UNCHANGED << server_socket, sockVars, pending, locals, accepts, spinning >>

\* CaughtBluetoothError without "client_socket = None": the loop goes on with
\* the dead socket
CaughtBluetoothErrorKeepsSocket ==
    /\ lastLog' = IF perrno = ECONNRESET THEN "Client disconnected"
                  ELSE "Unexpected client error"
    /\ ResetLocals
    /\ outcome' = "transport_error"
    /\ pc' = "client_loop"
    /\ ThreadFrame
    /\ UNCHANGED << server_socket, sockVars, pending, client_socket, connVars,
                    invoked, lastCall, accepts, dropped, spinning >>

\* except bluetooth.btcommon.BluetoothError as e (in _handle_clients)
CaughtBluetoothError ==
    /\ lastLog' = IF perrno = ECONNRESET THEN "Client disconnected"
                  ELSE "Unexpected client error"
    /\ Release
    /\ ResetLocals
    /\ outcome' = "transport_error"
    /\ pc' = "client_loop"
    /\ ThreadFrame
    /\ UNCHANGED << server_socket, sockVars, pending, invoked, lastCall, accepts,
                    spinning >>

\* CaughtException without the try in run(): the exception ends the thread
CaughtExceptionEndsThread ==
    /\ Release
    /\ ResetLocals
    /\ outcome' = "exception"
    /\ pc' = "done"
    /\ ThreadFrame
    /\ UNCHANGED << server_socket, sockVars, pending, invoked, lastCall, lastLog,
                    accepts, spinning >>

\* CaughtException that keeps the connection: run() goes back to accept the
\* next client while the one it was serving is still held
CaughtExceptionKeepsConnection ==
    /\ lastLog' = "Unhandled exception"
    /\ ResetLocals
    /\ outcome' = "exception"
    /\ pc' = "run_loop"
    /\ ThreadFrame
    /\ UNCHANGED << server_socket, sockVars, pending, client_socket, connVars,
                    invoked, lastCall, accepts, dropped, spinning >>

\* except Exception (in run): anything else that _handle_clients lets through
CaughtException ==
    /\ lastLog' = "Unhandled exception"
    /\ Release
    /\ ResetLocals
    /\ outcome' = "exception"
    /\ pc' = "run_loop"
    /\ ThreadFrame
    /\ UNCHANGED << server_socket, sockVars, pending, invoked, lastCall, accepts,
                    spinning >>

\* client_socket.recv(n): "block" while nothing can be returned, "error" when
\* the call raises BluetoothError, else the bytes (at most n, b'' at end of
\* stream)
Recv(n) ==
    IF peer = "reset" THEN [kind |-> "error", bytes |-> << >>]
    ELSE IF n = 0 THEN [kind |-> "data", bytes |-> << >>]
    ELSE IF inbuf # << >> THEN [kind |-> "data", bytes |-> Take(inbuf, n)]
    ELSE IF peer = "eof" THEN [kind |-> "data", bytes |-> << >>]
    ELSE [kind |-> "block", bytes |-> << >>]

\* _recv_client_endpoint, first half: recv(4) and struct.unpack
RecvEndpointLength ==
    /\ pc = "recv_len"
    /\ LET r == Recv(4) IN
        /\ r.kind # "block"
        /\ IF r.kind = "error" THEN CaughtBluetoothError
           ELSE IF Len(r.bytes) # 4
           THEN \* struct.error: unpack requires a buffer of 4 bytes
                CaughtException
           ELSE /\ end_point_length' = UnpackU32(r.bytes)
                /\ inbuf' = Drop(inbuf, 4)
                /\ pc' = "recv_name"
                /\ ThreadFrame
                /\ UNCHANGED << server_socket, sockVars, pending, client_socket,
                                end_point, data, return_data, outbuf, peer, perrno,
                                sends, cycleHist, lastLog, accepts, dropped,
                                spinning >>

\* _recv_client_endpoint, second half: recv(end_point_length) and decode()
RecvEndpointName ==
    /\ pc = "recv_name"
    /\ LET r == Recv(end_point_length) IN
        /\ r.kind # "block"
        /\ IF r.kind = "error" THEN CaughtBluetoothError
           ELSE IF ~Utf8Decode(r.bytes).ok
           THEN \* UnicodeDecodeError
                CaughtException
           ELSE /\ end_point' = Utf8Decode(r.bytes).text
                /\ inbuf' = Drop(inbuf, Len(r.bytes))
                /\ pc' = "recv_data"
                /\ ThreadFrame
                /\ UNCHANGED << server_socket, sockVars, pending, client_socket,
                                end_point_length, data, return_data, outbuf, peer,
                                perrno, sends, cycleHist, lastLog, accepts, dropped,
                                spinning >>

\* RecvData that returns the terminator with the payload
RecvDataKeepsTerminator ==
    /\ pc = "recv_data"
    /\ LET r == Recv(1) IN
        /\ r.kind # "block"
        /\ IF r.kind = "error" THEN CaughtBluetoothError
           ELSE /\ inbuf' = Drop(inbuf, Len(r.bytes))
                /\ data' = data \o r.bytes
                /\ IF r.bytes = << 0 >>
                   THEN /\ pc' = "dispatch"
                        /\ UNCHANGED spinning
                   ELSE /\ spinning' = (spinning \/ r.bytes = << >>)
                        /\ UNCHANGED pc
                /\ ThreadFrame
                /\ UNCHANGED << server_socket, sockVars, pending, client_socket,
                                end_point_length, end_point, return_data, outbuf,
                                peer, perrno, sends, cycleHist, lastLog, accepts,
                                dropped >>

\* _recv_client_data: one recv(1) and the test of the while loop
RecvData ==
    /\ pc = "recv_data"
    /\ LET r == Recv(1) IN
        /\ r.kind # "block"
        /\ IF r.kind = "error" THEN CaughtBluetoothError
           ELSE /\ inbuf' = Drop(inbuf, Len(r.bytes))
                /\ IF r.bytes = << 0 >>
                   THEN /\ pc' = "dispatch"
                        /\ UNCHANGED << data, spinning >>
                   ELSE /\ data' = data \o r.bytes
                        /\ spinning' = (spinning \/ r.bytes = << >>)
                        /\ UNCHANGED pc
                /\ ThreadFrame
                /\ UNCHANGED << server_socket, sockVars, pending, client_socket,
                                end_point_length, end_point, return_data, outbuf,
                                peer, perrno, sends, cycleHist, lastLog, accepts,
                                dropped >>

\* Dispatch with the membership test left out: an unknown name is answered
\* with an empty frame
DispatchAnswersUnknown ==
    /\ pc = "dispatch"
    /\ IF end_point \in DOMAIN end_points
       THEN /\ pc' = "call"
            /\ UNCHANGED << locals, outcome >>
       ELSE /\ pc' = "send"
            /\ outcome' = "handler_returned"
            /\ UNCHANGED locals
    /\ ThreadFrame
    /\ UNCHANGED << server_socket, sockVars, pending, client_socket, connVars,
                    invoked, lastCall, lastLog, accepts, dropped, spinning >>

\* _handle_client: if end_point in self._end_points
Dispatch ==
    /\ pc = "dispatch"
    /\ IF end_point \in DOMAIN end_points
       THEN /\ pc' = "call"
            /\ UNCHANGED << locals, outcome >>
       ELSE \* _handle_client returns without a response
            /\ pc' = "client_loop"
            /\ ResetLocals
            /\ outcome' = "unknown_endpoint"
    /\ ThreadFrame
    /\ UNCHANGED << server_socket, sockVars, pending, client_socket, connVars,
                    invoked, lastCall, lastLog, accepts, dropped, spinning >>

\* RunEndpoint without its try: what the callback raises leaves
\* _handle_clients
RunEndpointPropagates ==
    /\ pc = "call"
    /\ LET h == end_points[end_point]
           r == HandlerCall(h, data)
       IN  IF r.raised
           THEN /\ CaughtException
           ELSE /\ invoked' = invoked + 1
                /\ lastCall' = [name |-> end_point, handler |-> h, data |-> data]
                /\ return_data' = r.value
                /\ outcome' = "handler_returned"
                /\ pc' = "send"
                /\ ThreadFrame
                /\ UNCHANGED << server_socket, sockVars, pending, client_socket,
                                end_point_length, end_point, data, connVars, lastLog,
                                accepts, dropped, spinning >>

\* _run_endpoint: the call of the callback and its except clause
RunEndpoint ==
    /\ pc = "call"
    /\ LET h == end_points[end_point]
           r == HandlerCall(h, data)
       IN  /\ invoked' = invoked + 1
           /\ lastCall' = [name |-> end_point, handler |-> h, data |-> data]
           /\ IF r.raised
              THEN /\ lastLog' = "Unhandled end-point exception"
                   /\ return_data' = DictValue(<< << ErrorKey, r.msg >> >>)
                   /\ outcome' = "handler_raised"
              ELSE /\ return_data' = r.value
                   /\ outcome' = "handler_returned"
                   /\ UNCHANGED lastLog
    /\ pc' = "send"
    /\ ThreadFrame
    /\ UNCHANGED << server_socket, sockVars, pending, client_socket,
                    end_point_length, end_point, data, connVars, accepts, dropped,
                    spinning >>

\* _run_endpoint's conversions and _send_client_response's None test:
\* [ok, bytes]; ok = FALSE when len(return_data) raises TypeError
Normalize(v) ==
    IF v.kind = "None" THEN [ok |-> TRUE, bytes |-> << >>]
    ELSE IF v.kind = "str" THEN [ok |-> TRUE, bytes |-> Utf8Encode(v.text)]
    ELSE IF v.kind = "dict" THEN [ok |-> TRUE, bytes |-> Utf8Encode(JsonDumps(v.pairs))]
    ELSE IF v.kind = "bytes" THEN [ok |-> TRUE, bytes |-> v.bytes]
    ELSE [ok |-> FALSE, bytes |-> << >>]

\* PackResponse that ends the frame with a NUL, as requests end
PackResponseTerminated(b) == PackU32(Len(b)) \o b \o << 0 >>

\* struct.pack(f'I{len(return_data)}s', len(return_data), return_data)
PackResponse(b) == PackU32(Len(b)) \o b

\* _run_endpoint from the conversions on, and _send_client_response
SendClientResponse ==
    /\ pc = "send"
    /\ LET n == Normalize(return_data) IN
        IF ~n.ok
        THEN \* TypeError: object of type 'int' has no len()
             CaughtException
        ELSE IF peer = "reset"
        THEN \* send raises BluetoothError
             CaughtBluetoothError
        ELSE /\ outbuf' = outbuf \o PackResponse(n.bytes)
             /\ outcome' = IF outcome = "handler_raised" THEN "error_sent"
                           ELSE "responded"
             /\ pc' = "client_loop"
             /\ ResetLocals
             /\ ThreadFrame
             /\ UNCHANGED << server_socket, sockVars, pending, client_socket, inbuf,
                             peer, perrno, sends, invoked, lastCall, lastLog,
                             accepts, dropped, spinning >>

(***************************************************************************)
(* The clients.                                                            *)
(***************************************************************************)
ClientFrame ==
    UNCHANGED << appVars, sockVars, pc, client_socket, locals, stopCalled,
                 regHist, cycleHist, lastLog, accepts, dropped, closed, spinning,
                 atStop, reader >>

\* a client connects: its connection joins accept's queue
Connect ==
    /\ listening
    /\ opened < MaxConns
    /\ opened' = opened + 1
    /\ pending' = Append(pending, opened + 1)
    /\ ClientFrame
    /\ UNCHANGED connVars

\* the serving thread is in, or about to make, a recv call
Reading == pc \in {"recv_len", "recv_name", "recv_data"}

\* the peer of the served connection reads what the server has sent it and
\* writes its next chunk; the bytes wait in the socket until the server
\* reads, so the chunk is written when the server has used up the last one
ClientSend ==
    /\ client_socket # None
    /\ Reading
    /\ peer = "open"
    /\ sends < MaxSends
    /\ inbuf = << >>
    /\ \E chunk \in Chunks : inbuf' = chunk
    /\ outbuf' = << >>
    /\ sends' = sends + 1
    /\ ClientFrame
    /\ UNCHANGED << pending, opened, peer, perrno >>

\* the peer goes away: recv and send on the connection raise BluetoothError,
\* and what it had written is lost
PeerReset ==
    /\ client_socket # None
    /\ Reading \/ pc = "send"
    /\ peer = "open"
    /\ peer' = "reset"
    /\ \E e \in {ECONNRESET, OtherErrno} : perrno' = e
    /\ inbuf' = << >>
    /\ ClientFrame
    /\ UNCHANGED << pending, opened, outbuf, sends >>

\* the peer closes its end in an orderly way: recv returns b'' once the
\* buffered bytes are read
PeerClose ==
    /\ client_socket # None
    /\ Reading
    /\ peer = "open"
    /\ peer' = "eof"
    /\ ClientFrame
    /\ UNCHANGED << pending, opened, inbuf, outbuf, perrno, sends >>

(***************************************************************************)
(* A caller that reads app.server_socket while the thread runs (part of    *)
(* RaceSpec only).  The property takes no lock, so its test and its        *)
(* assignment are two steps; the serving thread's own accesses are taken   *)
(* in one step each.                                                       *)
(***************************************************************************)
ReaderFrame ==
    UNCHANGED << end_points, running, listening, advertised, pending, opened, pc,
                 client_socket, locals, connVars, stopCalled, atStop, regHist,
                 cycleHist, lastLog, accepts, dropped, closed, spinning >>

\* if self._server_socket: finds None (with a cached socket the property
\* returns it, which changes nothing)
ReaderTest ==
    /\ reader = "idle"
    /\ server_socket = "None"
    /\ reader' = "creating"
    /\ ReaderFrame
    /\ UNCHANGED << server_socket, binds >>

\* BluetoothSocket(RFCOMM), bind(("", self._port)) and the assignment to
\* self._server_socket
ReaderBind ==
    /\ reader = "creating"
    /\ binds' = binds + 1
    /\ server_socket' = "socket"
    /\ reader' = "idle"
    /\ ReaderFrame

(***************************************************************************)
(* The specifications.                                                     *)
(***************************************************************************)
ServerStep ==
    \/ Start
    \/ StartListening
    \/ AdvertiseService
    \/ RunLoop
    \/ WaitForClient
    \/ ClientLoop
    \/ RecvEndpointLength
    \/ RecvEndpointName
    \/ RecvData
    \/ Dispatch
    \/ RunEndpoint
    \/ SendClientResponse

Next ==
    \/ CallRegisterEndpoint
    \/ CallRegister
    \/ Stop
    \/ ServerStep
    \/ Connect
    \/ ClientSend
    \/ PeerReset
    \/ PeerClose

Spec == Init /\ [][Next]_vars

\* the serving thread is scheduled as long as it can take a step
FairSpec == Spec /\ WF_vars(ServerStep)

\* the program with a caller that reads app.server_socket on another thread
RaceNext ==
    \/ Next
    \/ ReaderTest
    \/ ReaderBind

RaceSpec == Init /\ [][RaceNext]_vars

(***************************************************************************)
(* The client's side of the protocol, used to read what the server wrote.  *)
(***************************************************************************)
\* the bytes a step appended to outbuf
Written == Drop(outbuf', Len(outbuf))

\* b is one response frame: a 4-byte length and exactly that many bytes
IsFrame(b) == Len(b) >= 4 /\ UnpackU32(Take(b, 4)) = Len(b) - 4

FramePayload(b) == Drop(b, 4)

\* json.loads of an object whose keys and values are strings:
\* [ok, pairs], pairs a sequence of <<key, value>>
HexValue(c) ==
    IF c >= 48 /\ c <= 57 THEN c - 48
    ELSE IF c >= 97 /\ c <= 102 THEN c - 87
    ELSE IF c >= 65 /\ c <= 70 THEN c - 55
    ELSE -1

RECURSIVE SkipSpace(_, _)
SkipSpace(t, i) ==
    IF i <= Len(t) /\ t[i] \in {32, 9, 10, 13} THEN SkipSpace(t, i + 1) ELSE i

JsonFail == [ok |-> FALSE, val |-> << >>, next |-> 0]

\* the characters of a string from position i (after the opening quote)
RECURSIVE JsonStringFrom(_, _, _)
JsonStringFrom(t, i, acc) ==
    IF i > Len(t) \/ t[i] < 32 THEN JsonFail
    ELSE IF t[i] = 34 THEN [ok |-> TRUE, val |-> acc, next |-> i + 1]
    ELSE IF t[i] # 92 THEN JsonStringFrom(t, i + 1, Append(acc, t[i]))
    ELSE IF i + 1 > Len(t) THEN JsonFail
    ELSE IF t[i + 1] \in {34, 92, 47} THEN JsonStringFrom(t, i + 2, Append(acc, t[i + 1]))
    ELSE IF t[i + 1] = 110 THEN JsonStringFrom(t, i + 2, Append(acc, 10))
    ELSE IF t[i + 1] = 114 THEN JsonStringFrom(t, i + 2, Append(acc, 13))
    ELSE IF t[i + 1] = 116 THEN JsonStringFrom(t, i + 2, Append(acc, 9))
    ELSE IF t[i + 1] = 98 THEN JsonStringFrom(t, i + 2, Append(acc, 8))
    ELSE IF t[i + 1] = 102 THEN JsonStringFrom(t, i + 2, Append(acc, 12))
    ELSE IF t[i + 1] = 117 /\ i + 5 <= Len(t)
            /\ \A k \in 2 .. 5 : HexValue(t[i + k]) >= 0
        THEN JsonStringFrom(t, i + 6,
                 Append(acc, HexValue(t[i + 2]) * 4096 + HexValue(t[i + 3]) * 256
                             + HexValue(t[i + 4]) * 16 + HexValue(t[i + 5])))
    ELSE JsonFail

JsonStringAt(t, i) ==
    IF i <= Len(t) /\ t[i] = 34 THEN JsonStringFrom(t, i + 1, << >>) ELSE JsonFail

\* the members of an object from position i (at a key)
RECURSIVE JsonMembersFrom(_, _, _)
JsonMembersFrom(t, i, acc) ==
    LET k == JsonStringAt(t, SkipSpace(t, i))
        c == SkipSpace(t, k.next)
        v == JsonStringAt(t, SkipSpace(t, c + 1))
        e == SkipSpace(t, v.next)
    IN  IF ~k.ok \/ c > Len(t) \/ t[c] # 58 THEN [ok |-> FALSE, pairs |-> << >>]
        ELSE IF ~v.ok \/ e > Len(t) THEN [ok |-> FALSE, pairs |-> << >>]
        ELSE IF t[e] = 125
            THEN [ok |-> SkipSpace(t, e + 1) > Len(t),
                  pairs |-> Append(acc, << k.val, v.val >>)]
        ELSE IF t[e] = 44
            THEN JsonMembersFrom(t, e + 1, Append(acc, << k.val, v.val >>))
        ELSE [ok |-> FALSE, pairs |-> << >>]

JsonLoads(t) ==
    LET i == SkipSpace(t, 1) IN
        IF i > Len(t) \/ t[i] # 123 THEN [ok |-> FALSE, pairs |-> << >>]
        ELSE IF SkipSpace(t, i + 1) <= Len(t) /\ t[SkipSpace(t, i + 1)] = 125
            THEN [ok |-> SkipSpace(t, SkipSpace(t, i + 1) + 1) > Len(t), pairs |-> << >>]
        ELSE JsonMembersFrom(t, i + 1, << >>)

\* the bytes are UTF-8 for a JSON object with a non-empty string under "error"
IsErrorMap(b) ==
    /\ Utf8Decode(b).ok
    /\ LET m == JsonLoads(Utf8Decode(b).text) IN
          /\ m.ok
          /\ \E i \in 1 .. Len(m.pairs) :
                m.pairs[i][1] = ErrorKey /\ m.pairs[i][2] # << >>

(***************************************************************************)
(* Properties.                                                             *)
(***************************************************************************)
\* a step of the serving thread out of the place pc names
Leaves(p) == pc = p /\ pc' # p

\* C1: a request for a name that is not registered writes nothing, calls no
\* handler and leaves the thread at the head of the loop on the same
\* connection, which is still open; from there, while running is set, the
\* thread reads the next request from that connection.
C1_UnknownEndpointIgnored ==
    [][ /\ (Leaves("dispatch") /\ end_point \notin DOMAIN end_points)
            => /\ outbuf' = outbuf
               /\ inbuf' = inbuf
               /\ invoked' = 0
               /\ lastCall' = NoCall
               /\ client_socket # None
               /\ client_socket' = client_socket
               /\ client_socket \notin dropped'
               /\ pc' = "client_loop"
        /\ (Leaves("client_loop") /\ outcome = "unknown_endpoint" /\ running)
            => /\ pc' = "recv_len"
               /\ client_socket' = client_socket
               /\ client_socket # None
      ]_vars

\* a request for an unregistered name has been consumed: the thread is back
\* at the loop head with the connection, nothing written, no handler called
C1_Witness ==
    /\ pc = "client_loop"
    /\ outcome = "unknown_endpoint"
    /\ client_socket # None
    /\ NameEcho \in DOMAIN end_points
    /\ outbuf = << >>
    /\ inbuf = << >>
    /\ invoked = 0
    /\ running

\* what the four kinds of result are sent as
ExpectedPayload(v) ==
    CASE v.kind = "bytes" -> v.bytes
      [] v.kind = "str" -> Utf8Encode(v.text)
      [] v.kind = "dict" -> Utf8Encode(JsonDumps(v.pairs))
      [] v.kind = "None" -> << >>

\* C2: when the handler of a registered endpoint has returned bytes, a
\* string, a map or None and the send succeeds, exactly one frame is appended
\* to what the client receives: 4 bytes holding the length of the normalized
\* payload, then that payload and nothing else; bytes are written only by
\* this step.  Echo of b"ping" gives 04 00 00 00 'p' 'i' 'n' 'g'; 'hé' gives
\* 3 bytes; {'k': 'b"é'} gives the 18 bytes of {"k": "b\"é"}.
C2_OneResponseFrame ==
    [][ /\ (Leaves("send") /\ outcome = "handler_returned" /\ peer # "reset"
              /\ return_data.kind \in {"bytes", "str", "dict", "None"})
            => /\ Take(outbuf', Len(outbuf)) = outbuf
               /\ IsFrame(Written)
               /\ FramePayload(Written) = ExpectedPayload(return_data)
               /\ invoked = 1
               /\ (lastCall.handler = "echo" /\ lastCall.data = Ping)
                     => Written = << 4, 0, 0, 0, 112, 105, 110, 103 >>
               /\ (lastCall.handler = "poly" /\ lastCall.data = << >>)
                     => Written = << 0, 0, 0, 0 >>
               /\ (lastCall.handler = "poly" /\ lastCall.data = << 115 >>)
                     => Written = << 3, 0, 0, 0, 104, 195, 169 >>
               /\ (lastCall.handler = "poly" /\ lastCall.data = << 100 >>)
                     => Written = << 18, 0, 0, 0, 123, 34, 107, 34, 58, 32, 34, 98,
                                     92, 34, 92, 117, 48, 48, 101, 57, 34, 125 >>
        /\ (Len(outbuf') > Len(outbuf)) => pc = "send"
      ]_vars

\* the echo handler was called with b"ping" and its frame has been written
C2_Witness ==
    /\ pc = "client_loop"
    /\ outcome = "responded"
    /\ lastCall = [name |-> NameEcho, handler |-> "echo", data |-> Ping]
    /\ outbuf = << 4, 0, 0, 0, 112, 105, 110, 103 >>

\* C3: whenever the handler of a registered endpoint raised, the frame then
\* written carries a payload that parses as a map with an "error" key whose
\* value is a non-empty string.
C3_ErrorValueNonEmpty ==
    [][ (Leaves("send") /\ outcome = "handler_raised" /\ peer # "reset")
            => /\ IsFrame(Written)
               /\ IsErrorMap(FramePayload(Written))
      ]_vars

\* the frame written for Exception('b"é'): {"error": "b\"é"}
ErrorFrameQuote ==
    << 22, 0, 0, 0, 123, 34, 101, 114, 114, 111, 114, 34, 58, 32, 34, 98, 92, 34,
       92, 117, 48, 48, 101, 57, 34, 125 >>

\* C4: a handler that raises does not end the connection's loop: the call
\* step goes on to the send step with the connection, the send step returns
\* to the loop head with the connection, still open and with its unread
\* input untouched, and from there (while running is set) the next request
\* is read from the same connection.
C4_UsableAfterHandlerFailure ==
    [][ /\ (Leaves("call") /\ HandlerCall(end_points[end_point], data).raised)
            => /\ pc' = "send"
               /\ client_socket # None
               /\ client_socket' = client_socket
               /\ client_socket \notin dropped'
               /\ inbuf' = inbuf
        /\ (Leaves("send") /\ outcome = "handler_raised" /\ peer # "reset")
            => /\ pc' = "client_loop"
               /\ client_socket # None
               /\ client_socket' = client_socket
               /\ client_socket \notin dropped'
               /\ inbuf' = inbuf
        /\ (Leaves("client_loop") /\ outcome = "error_sent" /\ running)
            => /\ pc' = "recv_len"
               /\ client_socket' = client_socket
      ]_vars

\* on one connection a request whose handler raised was answered with the
\* error frame, and the request after it with the echo of b"ping"
C4_Witness ==
    /\ pc = "client_loop"
    /\ outcome = "responded"
    /\ client_socket # None
    /\ outbuf = ErrorFrameQuote \o << 4, 0, 0, 0, 112, 105, 110, 103 >>

\* C5: a registration call (through either method) for a name that is
\* already registered ends with EndpointExistsError and changes nothing in
\* the registry; any other call adds exactly its name and touches no other
\* entry.  So every name stays mapped to the handler first registered for
\* it, and that is the handler a request calls.
C5_DuplicateRegistrationRejected ==
    /\ [](/\ DOMAIN end_points = DOMAIN firstReg
          /\ \A n \in DOMAIN firstReg : end_points[n] = firstReg[n]
          /\ lastCall.handler # "none"
                => /\ lastCall.name \in DOMAIN firstReg
                   /\ lastCall.handler = firstReg[lastCall.name])
    /\ [][ (<< end_points, lastReg, regVia >>' # << end_points, lastReg, regVia >>)
             => /\ regVia' \in {"register", "register_endpoint"}
                /\ IF lastReg'.name \in DOMAIN end_points
                   THEN /\ lastReg'.result = "EndpointExistsError"
                        /\ end_points' = end_points
                   ELSE /\ lastReg'.result = "ok"
                        /\ DOMAIN end_points' = DOMAIN end_points \cup {lastReg'.name}
                        /\ \A n \in DOMAIN end_points : end_points'[n] = end_points[n]
         ]_vars

\* the decorator was applied for "echo" a second time and failed, and a
\* request for "echo" has been answered by the handler registered first
C5_Witness ==
    /\ lastReg = [name |-> NameEcho, result |-> "EndpointExistsError"]
    /\ regVia = "register"
    /\ NameEcho \in DOMAIN firstReg
    /\ firstReg[NameEcho] = "echo"
    /\ lastCall = [name |-> NameEcho, handler |-> "echo", data |-> Ping]
    /\ outcome = "responded"

\* the thread is about to raise something other than BluetoothError:
\* struct.error for fewer than 4 bytes of length prefix
TruncatedPrefix ==
    /\ pc = "recv_len"
    /\ peer # "reset"
    /\ Len(inbuf) < 4
    /\ inbuf # << >> \/ peer = "eof"

\* UnicodeDecodeError for the bytes of the name
UndecodableName ==
    /\ pc = "recv_name"
    /\ peer # "reset"
    /\ ~Utf8Decode(Take(inbuf, end_point_length)).ok

\* TypeError for a result that has no len()
UnsendableResult == pc = "send" /\ return_data.kind = "int"

\* C6: an exception other than a transport error raised while a client is
\* handled (a truncated length prefix, a name that is not UTF-8, a result
\* that cannot be sent) is caught and logged by run(), the registry is left
\* alone, and while running is set the thread goes on to accept; the thread
\* ends only from the loop test with running cleared.
C6_ExceptionDoesNotEndAcceptLoop ==
    [][ /\ ((TruncatedPrefix \/ UndecodableName \/ UnsendableResult) /\ pc' # pc)
            => /\ pc' = "run_loop"
               /\ lastLog' = "Unhandled exception"
               /\ end_points' = end_points
               /\ running' = running
        /\ (Leaves("run_loop") /\ running) => pc' = "accept"
        /\ (pc' = "done" /\ pc # "done") => (pc = "run_loop" /\ ~running)
      ]_vars

\* after an exception on the first connection the second one was accepted
C6_Witness ==
    /\ lastLog = "Unhandled exception"
    /\ outcome = "exception"
    /\ pc = "client_loop"
    /\ client_socket = 2
    /\ dropped = {1}
    /\ running

\* C7: whenever run() has left its loop, stop() has been called and the
\* running flag is false.
C7_OnlyStopEndsLoop == pc = "done" => (stopCalled /\ ~running)

\* run() has returned after serving clients, one of them dropped on an
\* exception
C7_Witness ==
    /\ pc = "done"
    /\ accepts >= 2
    /\ dropped = {1, 2}
    /\ stopCalled

\* C8: after stop() run() eventually returns.
C8_StopLeadsToReturn == stopCalled ~> (pc = "done")

\* C9: every connection the server has stopped serving has been closed, and
\* no connection is closed twice.
C9_ClosedExactlyOnce ==
    \A c \in ConnIds : (c \in dropped => closed[c] = 1) /\ closed[c] <= 1

\* C10: a transport error on a read or on the write of the response ends
\* that connection's loop: the thread lets go of the connection and logs the
\* disconnect (errno 104) or the unexpected error, calls no handler (none at
\* all during a read: the request was not complete), leaves the registry
\* alone, returns to run()'s loop and, while running is set, accepts the next
\* connection and serves it.
C10_TransportErrorEndsOnlyThatConnection ==
    [][ /\ ((Reading \/ (pc = "send" /\ return_data.kind # "int"))
              /\ peer = "reset" /\ pc' # pc)
            => /\ pc' = "client_loop"
               /\ client_socket' = None
               /\ client_socket \in dropped'
               /\ end_points' = end_points
               /\ invoked' = invoked
               /\ lastCall' = lastCall
               /\ Reading => invoked' = 0
               /\ lastLog' = IF perrno = ECONNRESET THEN "Client disconnected"
                             ELSE "Unexpected client error"
        /\ (Leaves("client_loop") /\ client_socket = None) => pc' = "run_loop"
        /\ (Leaves("run_loop") /\ running) => pc' = "accept"
        /\ Leaves("accept")
            => /\ pc' = "client_loop"
               /\ client_socket' \in ConnIds \ dropped
        /\ (Leaves("client_loop") /\ client_socket # None /\ running)
            => /\ pc' = "recv_len"
               /\ client_socket' = client_socket
      ]_vars

\* the first client went away in the middle of a request with an errno other
\* than 104; the second connection has been accepted
C10_Witness ==
    /\ outcome = "transport_error"
    /\ lastLog = "Unexpected client error"
    /\ invoked = 0
    /\ pc = "client_loop"
    /\ client_socket = 2
    /\ dropped = {1}
    /\ end_points # << >>
    /\ running

\* the payload decode has just been handed b'' by recv: the peer closed its
\* end and every byte it wrote before has been read
EndOfStreamInPayload ==
    /\ pc = "recv_data"
    /\ peer = "eof"
    /\ inbuf = << >>

\* C11: a payload decode that meets the end of the stream before a NUL fails:
\* the step that reads b'' leaves the decode (with a framing error), and the
\* decode is never found reading on after such a read.
C11_EndOfStreamFails ==
    /\ [](spinning => pc # "recv_data")
    /\ [][ (EndOfStreamInPayload /\ spinning' # spinning) => pc' # "recv_data" ]_vars

\* C12: the endpoint decode goes on to the name only with a full 4-byte
\* prefix, and returns a name only when the stream delivered exactly the
\* declared number of bytes for it: the name returned is those bytes decoded,
\* none of them is left in the stream for the payload decode.
C12_NameHasDeclaredLength ==
    [][ /\ (Leaves("recv_len") /\ pc' = "recv_name")
            => /\ Len(inbuf) >= 4
               /\ end_point_length' = UnpackU32(Take(inbuf, 4))
               /\ inbuf' = Drop(inbuf, 4)
        /\ (Leaves("recv_name") /\ pc' = "recv_data")
            => /\ Len(Utf8Encode(end_point')) = end_point_length
               /\ inbuf = Utf8Encode(end_point') \o inbuf'
      ]_vars

\* C13: when the handler returned a value that is neither bytes, a string, a
\* map nor None (and the peer is still there), the failure is logged, one
\* frame carrying an error map is written, and the thread is back at the loop
\* head with the connection still held and not let go.
C13_UnsupportedResultAnswered ==
    [][ (UnsendableResult /\ peer # "reset" /\ pc' # pc)
            => /\ lastLog' # "none"
               /\ IsFrame(Written)
               /\ IsErrorMap(FramePayload(Written))
               /\ pc' = "client_loop"
               /\ client_socket # None
               /\ client_socket' = client_socket
               /\ client_socket \notin dropped'
      ]_vars

\* the thread is outside _handle_clients' loop: before it, between two
\* clients, or after run() returned
BetweenClients == pc \in {"init", "listen", "advertise", "run_loop", "accept", "done"}

\* the thread is inside _handle_client
InRequest == Reading \/ pc \in {"dispatch", "call", "send"}

\* C14: the connections accepted so far are, in the order they connected,
\* those the thread has let go plus at most the one it holds; outside the
\* per-connection loop it holds none, and every read and write is on the one
\* it holds.  accept is called only from the accept step and only when every
\* connection accepted before has been let go.
C14_OneConnectionAtATime ==
    /\ [](/\ BetweenClients => client_socket = None
          /\ InRequest => client_socket # None
          /\ client_socket # None => client_socket \notin dropped
          /\ dropped \cup (IF client_socket = None THEN {} ELSE {client_socket})
                = 1 .. accepts)
    /\ [][ /\ (accepts' # accepts)
               => /\ pc = "accept"
                  /\ accepts' = accepts + 1
                  /\ client_socket = None
                  /\ dropped = 1 .. accepts
                  /\ client_socket' = accepts + 1
                  /\ pc' = "client_loop"
           /\ (pc' = "accept" /\ pc # "accept")
               => /\ pc = "run_loop"
                  /\ dropped = 1 .. accepts
           /\ (Len(outbuf') > Len(outbuf)) => (pc = "send" /\ client_socket # None)
         ]_vars

\* the second connection is being answered; the first one was let go before
\* it was accepted
C14_Witness ==
    /\ pc = "send"
    /\ client_socket = 2
    /\ accepts = 2
    /\ dropped = {1}
    /\ pending = << >>

\* the moves of the thread that stay on the connection it serves:
\* AWAIT_REQUEST is the loop head and the three reads, DISPATCH the lookup
\* and the call, RESPOND the send
CycleSteps ==
    { << "client_loop", "recv_len" >>, << "recv_len", "recv_name" >>,
      << "recv_name", "recv_data" >>, << "recv_data", "dispatch" >>,
      << "dispatch", "call" >>, << "dispatch", "client_loop" >>,
      << "call", "send" >>, << "send", "client_loop" >> }

\* C15: while the thread holds a connection it moves along the cycle or lets
\* the connection go; the handler is called at most once per cycle, from the
\* call step only, for a name whose frame was read in full (as many bytes as
\* its prefix declared) and with the payload just decoded; bytes are written
\* only by the send step, appended to what was written before, and the next
\* endpoint frame is read only after the thread has passed the loop head
\* again.
C15_RequestCycle ==
    /\ [](invoked <= 1)
    /\ [][ /\ (client_socket # None /\ pc' # pc)
               => \/ /\ client_socket' = client_socket
                     /\ << pc, pc' >> \in CycleSteps
                  \/ /\ client_socket' = None
                     /\ client_socket \in dropped'
                     /\ pc' \in {"client_loop", "run_loop"}
           /\ (invoked' # invoked)
               => \/ invoked' = 0 /\ pc = "client_loop"
                  \/ invoked = 0 /\ invoked' = 1 /\ pc = "call"
           /\ Leaves("call")
               => /\ Len(Utf8Encode(end_point)) = end_point_length
                  /\ lastCall' = [name |-> end_point,
                                  handler |-> end_points[end_point],
                                  data |-> data]
                  /\ invoked' = 1
           /\ (Len(outbuf') > Len(outbuf))
               => /\ pc = "send"
                  /\ pc' = "client_loop"
                  /\ invoked = 1
                  /\ Take(outbuf', Len(outbuf)) = outbuf
                  /\ IsFrame(Written)
           /\ (pc' = "recv_len" /\ pc # "recv_len") => pc = "client_loop"
         ]_vars

\* C16: bind() is called once per server instance: the first access of the
\* property creates and binds the socket, every later one, on any thread,
\* finds it cached.
C16_BoundOnce ==
    /\ binds <= 1
    /\ (server_socket = "None") <=> (binds = 0)

\* everything serving changes: the thread's place and locals, the queue of
\* accept, the connections and what is recorded about requests
servingVars ==
    << pc, pending, opened, client_socket, locals, connVars, cycleHist, lastLog,
       accepts, dropped, spinning, running >>

\* C17: no step removes a name from the registry or changes the handler of a
\* name; a step that changes the registry is a registration call that
\* succeeded, it adds exactly the name it was called with, and it is no step
\* of serving; every step that accepts, reads, dispatches, calls, responds,
\* drops a connection, connects, sends or stops leaves the registry as it
\* was.
C17_RegistryAppendOnly ==
    [][ /\ DOMAIN end_points \subseteq DOMAIN end_points'
        /\ \A n \in DOMAIN end_points : end_points'[n] = end_points[n]
        /\ (end_points' # end_points)
            => /\ lastReg'.result = "ok"
               /\ lastReg'.name \notin DOMAIN end_points
               /\ DOMAIN end_points' = DOMAIN end_points \cup {lastReg'.name}
               /\ servingVars' = servingVars
        /\ (servingVars' # servingVars) => end_points' = end_points
        /\ (lastReg'.result = "EndpointExistsError" /\ lastReg' # lastReg)
            => end_points' = end_points
      ]_vars

\* both names are registered with the handlers first given, a duplicate was
\* rejected, the first connection was dropped, and on the second a request
\* whose handler raised has been answered
C17_Witness ==
    /\ DOMAIN end_points = Names
    /\ end_points = firstReg
    /\ lastReg.result = "EndpointExistsError"
    /\ dropped = {1}
    /\ client_socket = 2
    /\ outcome = "error_sent"
    /\ pc = "client_loop"

\* b holds no terminator
NoNul(b) == \A i \in 1 .. Len(b) : b[i] # 0

\* C18: the payload decode starts from nothing and takes the stream one byte
\* at a time: a byte other than 0x00 is appended to the payload and the
\* decode goes on, the first 0x00 ends it and is consumed but not returned,
\* and nothing after it is touched.  So what is returned holds no 0x00 and is
\* followed on the stream by the terminator and then by the next frame.
C18_PayloadUpToTerminator ==
    /\ [](pc \in {"recv_data", "dispatch", "call"} => NoNul(data))
    /\ [][ /\ (pc' = "recv_data" /\ pc # "recv_data") => data' = << >>
           /\ (pc = "recv_data" /\ inbuf # << >> /\ inbuf' # inbuf /\ peer' = peer)
               => /\ inbuf' = Tail(inbuf)
                  /\ IF Head(inbuf) = 0
                     THEN data' = data /\ pc' = "dispatch"
                     ELSE data' = Append(data, Head(inbuf)) /\ pc' = "recv_data"
           /\ (pc' = "dispatch" /\ pc # "dispatch")
               => /\ pc = "recv_data"
                  /\ inbuf # << >>
                  /\ Head(inbuf) = 0
                  /\ data' = data
                  /\ data \o << 0 >> \o inbuf' = data \o inbuf
           /\ (pc = "dispatch" /\ pc' # "dispatch") => inbuf' = inbuf
         ]_vars

\* of two requests written back to back the payload b"x" of the first has
\* been decoded and the stream stands at the first byte of the second
C18_Witness ==
    /\ pc = "dispatch"
    /\ end_point = NameFe
    /\ data = << 120 >>
    /\ inbuf = Request(NameEcho, Ping)

\* C19: the running flag is true until stop() is called and false ever
\* after; once stop() has returned at most one more connection is accepted
\* (by an accept() the thread was already in), no request cycle is started
\* after stop() at all, and the thread does nothing with a connection
\* accepted after stop() but let it go and leave the loop.
C19_StopInterleaving ==
    /\ [](/\ running <=> ~stopCalled
          /\ stopCalled => accepts <= atStop.accepts + 1
          /\ (stopCalled /\ accepts > atStop.accepts)
                => pc \in {"client_loop", "run_loop", "done"})
    /\ [][ /\ ~running => ~running'
           /\ (pc' = "recv_len" /\ pc # "recv_len") => (running /\ ~stopCalled)
           /\ (stopCalled /\ accepts' # accepts)
               => /\ pc = "accept"
                  /\ accepts = atStop.accepts
                  /\ accepts' = accepts + 1
           /\ (stopCalled /\ accepts > atStop.accepts /\ pc' # pc)
               => /\ << pc, pc' >> \in {<< "client_loop", "run_loop" >>,
                                        << "run_loop", "done" >>}
                  /\ client_socket' = None
                  /\ inbuf' = inbuf
                  /\ outbuf' = outbuf
                  /\ invoked' = invoked
         ]_vars

\* stop() was called while the thread waited in accept(); the second
\* connection was accepted after that, let go without a request cycle, and
\* run() has returned
C19_Witness ==
    /\ stopCalled
    /\ atStop = [started |-> TRUE, accepts |-> 1]
    /\ accepts = 2
    /\ dropped = {1, 2}
    /\ pc = "done"

\* stop() was called before the thread began run()
StoppedBeforeRun == stopCalled /\ ~atStop.started

\* C20: when stop() was called before run() began, run() goes through
\* _start_listening and then _advertise_service and from the first test of
\* its loop straight to its end: when it has returned the socket is bound,
\* listening and advertised (listening first), no connection was accepted,
\* none is held, no request was read, no handler called and nothing written.
C20_StopBeforeRun ==
    /\ [](/\ advertised => listening
          /\ StoppedBeforeRun
                => /\ pc \in {"init", "listen", "advertise", "run_loop", "done"}
                   /\ pc \in {"advertise", "run_loop", "done"} => (listening /\ binds = 1)
                   /\ pc \in {"run_loop", "done"} => advertised
                   /\ accepts = 0
                   /\ client_socket = None
                   /\ dropped = {}
                   /\ invoked = 0
                   /\ outcome = "none"
                   /\ outbuf = << >>)
    /\ [][ /\ (StoppedBeforeRun /\ pc' # pc)
               => \/ pc = "init" /\ pc' = "listen"
                  \/ pc = "listen" /\ pc' = "advertise" /\ listening' /\ ~advertised'
                  \/ pc = "advertise" /\ pc' = "run_loop" /\ listening /\ advertised'
                  \/ pc = "run_loop" /\ pc' = "done"
           /\ (advertised' /\ ~advertised) => listening
         ]_vars

\* stop() came first; run() has listened, advertised and returned, and the
\* client that connected meanwhile still waits in the queue
C20_Witness ==
    /\ StoppedBeforeRun
    /\ pc = "done"
    /\ listening
    /\ advertised
    /\ accepts = 0
    /\ pending = << 1 >>

====
